---- MODULE Spec2Model ----
(***************************************************************************)
(* Job scheduler of OnlySatellites (handlers/update.go): the asynchronous  *)
(* UpdateHandler (POST /api/update, GET status), the synchronous           *)
(* RepopulateHandler (POST /api/repopulate), the goroutines they start and *)
(* the wall clock they read.                                               *)
(*                                                                         *)
(* Time is counted in ticks of 1/TicksPerSec second.  A time.Time is an    *)
(* integer number of ticks; the zero time.Time is ZeroTime.                *)
(***************************************************************************)
EXTENDS Integers, FiniteSets, Sequences, Bags, TLC

\* ---------------------------------------------------------------- bounds
NCallers == 2        \* concurrent requests to POST /api/update
NRpl == 2            \* concurrent clients of POST /api/repopulate
MaxRuns == 2         \* accepted asynchronous runs (cap of runID)
MaxOrphans == 1      \* abandoned goroutines counted, per kind
TicksPerSec == 4     \* clock resolution
CooldownSec == 1     \* UpdateHandler.Cooldown, from the update_cd setting

\* ------------------------------------------------------ program constants
TimeoutSec == 600          \* context.WithTimeout(..., 10*time.Minute)
DefaultCooldownSec == 60   \* cool = time.Minute when Cooldown <= 0
ZeroTime == 0              \* time.Time{}

TimeoutTicks == TimeoutSec * TicksPerSec
MsPerTick == 1000 \div TicksPerSec

RplCallers == 1..NRpl
RunIds == 1..MaxRuns
\* the clock advances by the timeout, or by SmallTick: so that the instants
\* less than a second before the end of the cooldown are met
SmallTick == CooldownSec * TicksPerSec - 3
TickSteps == {SmallTick, TimeoutTicks}

NoResp == [ep |-> "none", code |-> 0]

VARIABLES
    now,        \* wall clock, time.Now()
    crashed,    \* the process was terminated by an unrecovered panic
    cfgState,   \* "ok", "nilCfg" (h.Cfg == nil), "nilPass" (h.Pass == nil),
                \* "noPrefs" (no pass configuration in the prefs store)
    \* UpdateHandler fields
    lastRun, inFlight, runID, startedAt, finishedAt, step, lastErr,
    \* POST /api/update requests past the preflight that wait for h.mu: the
    \* now := time.Now() of each, in the order of arrival
    gateq,
    \* runUpdateJob goroutines, by run identifier
    jpc,        \* "none" | "spawned" | "db" | "thumb" | "exit"
    jdeadline,  \* deadline of the job's context
    \* RepopulateHandler fields and requests
    rInFlight, rLastRun,
    rpc,        \* "idle" | "reserve" | "db" | "thumb"
    \* goroutines still running com.RunDBUpdate / com.RunThumbGen after their
    \* owner stopped waiting for them: [db |-> n, thumb |-> n]
    orphans,
    \* the HTTP response written by the last step (NoResp when it wrote none)
    resp

updVars == <<lastRun, inFlight, runID, startedAt, finishedAt, step, lastErr>>
callVars == <<gateq>>
jobVars == <<jpc, jdeadline>>
rplVars == <<rInFlight, rLastRun, rpc>>
clockVars == <<now>>

\* The catalog that com.RunDBUpdate reconciles with the disk (com/db-update.go)
VARIABLES
    pcfg,       \* the PassConfig in the prefs store: an index of PassCfgs
    fs,         \* the folders under live_output_dir
    passes,     \* rows of table passes
    images,     \* rows of table images, a bag: the table has no unique column
                \* but the row id
    seq,        \* sqlite_sequence of table passes (AUTOINCREMENT)
    run,        \* the reconciliation run in progress, or the last one
    hist,       \* what happened since the last incremental run began
    \* argument and result of a function applied on its own
    arg, ret

dbVars == <<pcfg, fs, passes, images, seq, run, hist>>
funVars == <<arg, ret>>
confVars == <<cfgState, dbVars, funVars>>
vars == <<now, crashed, cfgState, lastRun, inFlight, runID, startedAt,
          finishedAt, step, lastErr, gateq, jpc, jdeadline, rInFlight,
          rLastRun, rpc, orphans, resp, pcfg, fs, passes, images, seq, run,
          hist, arg, ret>>

\* ------------------------------------------------------------------ time
IsZero(t) == t = ZeroTime

\* cool := h.Cooldown; if cool <= 0 { cool = time.Minute }
Cool(cd) == IF cd <= 0 THEN DefaultCooldownSec * TicksPerSec ELSE cd * TicksPerSec

\* now.Sub(h.lastRun) < cool.  Sub saturates at the maximal Duration when
\* h.lastRun is the zero time (year 1), so the comparison is false then.
CooldownActive(n, last, cool) == ~IsZero(last) /\ n - last < cool

RemainSecCeil(d) == (d + TicksPerSec - 1) \div TicksPerSec

\* int64((cool - since).Seconds() + 0.5), for cool - since = d ticks > 0
RemainSec(d) == (2 * d + TicksPerSec) \div (2 * TicksPerSec)

\* Duration.Milliseconds()
Milliseconds(d) == d * MsPerTick

\* No reconciliation under way, an empty catalog, no folder on disk
NoRun == [pc |-> "idle", mode |-> 1, existing |-> {}, cands |-> {},
          added |-> 0, skipped |-> 0, failed |-> FALSE, result |-> "none"]
NoHist == [clean |-> FALSE, second |-> FALSE]
NoFs == <<>>
NoArg == [fn |-> "none"]

DbIdle ==
    /\ pcfg = 0
    /\ fs = NoFs
    /\ passes = {}
    /\ images = EmptyBag
    /\ seq = 0
    /\ run = NoRun
    /\ hist = NoHist

FunIdle == arg = NoArg /\ ret = NoArg

\* The handlers as setupUpdateRoutes constructs them
SchedInit ==
    /\ now = 1
    /\ crashed = FALSE
    /\ lastRun = ZeroTime
    /\ inFlight = FALSE
    /\ runID = 0
    /\ startedAt = ZeroTime
    /\ finishedAt = ZeroTime
    /\ step = ""
    /\ lastErr = ""
    /\ gateq = <<>>
    /\ jpc = [i \in RunIds |-> "none"]
    /\ jdeadline = [i \in RunIds |-> ZeroTime]
    /\ rInFlight = FALSE
    /\ rLastRun = ZeroTime
    /\ rpc = [r \in RplCallers |-> "idle"]
    /\ orphans = [db |-> 0, thumb |-> 0]
    /\ resp = NoResp

Init ==
    /\ SchedInit
    /\ cfgState \in {"ok", "nilCfg", "nilPass"}
    /\ DbIdle
    /\ FunIdle

\* ------------------------------------------------- UpdateHandler.ServeHTTP
\* updateResp, as written by writeJSON for endpoint ep
Resp(ep, code, msg, inProg, cd, stp, started) ==
    [ep |-> ep, code |-> code, message |-> msg, inProgress |-> inProg,
     cooldownSec |-> cd, step |-> stp, startedAt |-> started]

\* Lines 56-78 (134-156): the method check and the preflight checks
Preflight(ep, m) ==
    IF m # "POST"
    THEN Resp(ep, 405, "method not allowed", FALSE, 0, "", ZeroTime)
    ELSE IF cfgState = "nilCfg"
    THEN Resp(ep, 500, "server misconfigured: nil AppConfig", FALSE, 0,
              "preflight", ZeroTime)
    ELSE IF cfgState = "nilPass"
    THEN Resp(ep, 500, "server misconfigured: nil PassConfig", FALSE, 0,
              "preflight", ZeroTime)
    ELSE NoResp

\* Lines 55-85 of a request with method m: method check, preflight,
\* now := time.Now(); the request then waits for h.mu.  At most n requests
\* wait at a time.  With its now a waiting request carries first: no run had
\* been accepted when it arrived, which only the properties read.
StartBegin(m, n) ==
    /\ ~crashed
    /\ resp' = Preflight("update", m)
    /\ IF resp' # NoResp
       THEN UNCHANGED gateq
       ELSE /\ Len(gateq) < n
            /\ gateq' = Append(gateq, [now |-> now, first |-> (runID = 0)])
    /\ UNCHANGED <<clockVars, crashed, confVars, updVars, jobVars, rplVars, orphans>>

InFlightCheckOff == FALSE

\* Line 88: if h.inFlight
InFlightCheck == inFlight

ReserveSameId(t) ==
    /\ inFlight' = TRUE
    /\ startedAt' = t
    /\ finishedAt' = ZeroTime
    /\ step' = "queued"
    /\ lastErr' = ""
    /\ runID' = runID
    /\ jpc' = [jpc EXCEPT ![runID + 1] = "spawned"]
    /\ UNCHANGED <<lastRun, jdeadline>>

ReserveKeepsErr(t) ==
    /\ inFlight' = TRUE
    /\ startedAt' = t
    /\ finishedAt' = ZeroTime
    /\ step' = "queued"
    /\ runID' = runID + 1
    /\ jpc' = [jpc EXCEPT ![runID + 1] = "spawned"]
    /\ UNCHANGED <<lastErr, lastRun, jdeadline>>

\* Lines 112-117: the reservation with the request's now, and line 121:
\* go h.runUpdateJob(id)
Reserve(t) ==
    /\ inFlight' = TRUE
    /\ startedAt' = t
    /\ finishedAt' = ZeroTime
    /\ step' = "queued"
    /\ lastErr' = ""
    /\ runID' = runID + 1
    /\ jpc' = [jpc EXCEPT ![runID + 1] = "spawned"]
    /\ UNCHANGED <<lastRun, jdeadline>>

\* The sequence q without its k-th element
Remove(q, k) == [j \in 1..(Len(q) - 1) |-> IF j < k THEN q[j] ELSE q[j + 1]]

StartGateCooldownFirst(k) ==
    /\ ~crashed
    /\ k \in 1..Len(gateq)
    /\ IF CooldownActive(gateq[k].now, lastRun, Cool(CooldownSec))
       THEN /\ resp' = Resp("update", 429, "cooldown active", FALSE,
                            RemainSec(Cool(CooldownSec) - (gateq[k].now - lastRun)),
                            "gate", ZeroTime)
            /\ UNCHANGED <<updVars, jobVars>>
       ELSE IF InFlightCheck
       THEN /\ resp' = Resp("update", 429, "update already in progress", TRUE, 0,
                            step, startedAt)
            /\ UNCHANGED <<updVars, jobVars>>
       ELSE /\ runID < MaxRuns
            /\ Reserve(gateq[k].now)
            /\ resp' = Resp("update", 202, "update started", TRUE, 0, "queued",
                            gateq[k].now)
    /\ gateq' = Remove(gateq, k)
    /\ UNCHANGED <<clockVars, crashed, confVars, rplVars, orphans>>

\* Lines 87-131: the gate, executed with h.mu held by the k-th waiting
\* request (sync.Mutex hands the lock to any of them).
StartGate(k) ==
    /\ ~crashed
    /\ k \in 1..Len(gateq)
    /\ IF InFlightCheck
       THEN /\ resp' = Resp("update", 429, "update already in progress", TRUE, 0,
                            step, startedAt)
            /\ UNCHANGED <<updVars, jobVars>>
       ELSE IF CooldownActive(gateq[k].now, lastRun, Cool(CooldownSec))
       THEN /\ resp' = Resp("update", 429, "cooldown active", FALSE,
                            RemainSec(Cool(CooldownSec) - (gateq[k].now - lastRun)),
                            "gate", ZeroTime)
            /\ UNCHANGED <<updVars, jobVars>>
       ELSE /\ runID < MaxRuns
            /\ Reserve(gateq[k].now)
            /\ resp' = Resp("update", 202, "update started", TRUE, 0, "queued",
                            gateq[k].now)
    /\ gateq' = Remove(gateq, k)
    /\ UNCHANGED <<clockVars, crashed, confVars, rplVars, orphans>>

\* ------------------------------------------------ UpdateHandler.runUpdateJob
SetStepLost(id, s) ==
    UNCHANGED <<step, lastRun, inFlight, runID, startedAt, finishedAt, lastErr>>

\* Lines 279-285
SetStep(id, s) ==
    /\ step' = IF runID = id THEN s ELSE step
    /\ UNCHANGED <<lastRun, inFlight, runID, startedAt, finishedAt, lastErr>>

FailStartsCooldown(id, err, s) ==
    /\ IF runID = id
       THEN /\ lastErr' = err
            /\ step' = s
            /\ inFlight' = FALSE
            /\ finishedAt' = now
            /\ lastRun' = now
       ELSE UNCHANGED <<lastErr, step, inFlight, finishedAt, lastRun>>
    /\ UNCHANGED <<runID, startedAt>>

FailKeepsFlag(id, err, s) ==
    /\ IF runID = id
       THEN /\ lastErr' = err
            /\ step' = s
            /\ finishedAt' = now
       ELSE UNCHANGED <<lastErr, step, finishedAt>>
    /\ UNCHANGED <<lastRun, runID, startedAt, inFlight>>

\* Lines 286-295
Fail(id, err, s) ==
    /\ IF runID = id
       THEN /\ lastErr' = err
            /\ step' = s
            /\ inFlight' = FALSE
            /\ finishedAt' = now
       ELSE UNCHANGED <<lastErr, step, inFlight, finishedAt>>
    /\ UNCHANGED <<lastRun, runID, startedAt>>

SucceedStale(id) ==
    /\ IF runID # id
       THEN /\ lastRun' = now
            /\ inFlight' = FALSE
            /\ step' = "done"
            /\ finishedAt' = now
       ELSE UNCHANGED <<lastRun, inFlight, step, finishedAt>>
    /\ UNCHANGED <<lastErr, runID, startedAt>>

\* Lines 296-305
Succeed(id) ==
    /\ IF runID = id
       THEN /\ lastRun' = now
            /\ inFlight' = FALSE
            /\ step' = "done"
            /\ finishedAt' = now
       ELSE UNCHANGED <<lastRun, inFlight, step, finishedAt>>
    /\ UNCHANGED <<lastErr, runID, startedAt>>

\* The job's goroutine ends (its deferred cancel() runs)
JobExit(id) ==
    /\ jpc' = [jpc EXCEPT ![id] = "exit"]
    /\ jdeadline' = [jdeadline EXCEPT ![id] = ZeroTime]

\* The owner of a goroutine running com.RunDBUpdate (kind "db") or
\* com.RunThumbGen ("thumb") stops waiting for it: the goroutine goes on.
\* Abandoned goroutines are counted up to MaxOrphans per kind.
Abandon(kind) ==
    orphans' = [orphans EXCEPT ![kind] = IF @ < MaxOrphans THEN @ + 1 ELSE @]

\* Lines 273-277, 313 and the start of runDBUpdate (258-263): from here on
\* the job's goroutine running com.RunDBUpdate exists, until the job takes
\* its result or stops waiting.
JobBegin(id) ==
    /\ ~crashed
    /\ jpc[id] = "spawned"
    /\ jpc' = [jpc EXCEPT ![id] = "db"]
    /\ jdeadline' = [jdeadline EXCEPT ![id] = now + TimeoutTicks]
    /\ SetStep(id, "db-update")
    /\ resp' = NoResp
    /\ UNCHANGED <<clockVars, crashed, confVars, callVars, rplVars, orphans>>

\* com.RunDBUpdate returned res ("ok" or "err") and runDBUpdate's select
\* takes the result (267-268); on nil the job goes on to setStep("thumbgen")
\* and runThumbgen up to its select (319, 330-346), where sql.Open /
\* db.PingContext may fail (ping is "ok" or "err").
JobDbRecv(id, res, ping) ==
    /\ ~crashed
    /\ jpc[id] = "db"
    /\ IF res = "err"
       THEN Fail(id, "db-update failed: error", "db-update") /\ JobExit(id)
       ELSE IF ping = "err"
       THEN Fail(id, "thumbgen failed: ping db", "thumbgen") /\ JobExit(id)
       ELSE /\ SetStep(id, "thumbgen")
            /\ jpc' = [jpc EXCEPT ![id] = "thumb"]
            /\ UNCHANGED jdeadline
    /\ resp' = NoResp
    /\ UNCHANGED <<clockVars, crashed, confVars, callVars, rplVars, orphans>>

\* runDBUpdate's select takes ctx.Done() (265-266); com.RunDBUpdate goes on
JobDbTimeout(id) ==
    /\ ~crashed
    /\ jpc[id] = "db"
    /\ now >= jdeadline[id]
    /\ Fail(id, "db-update failed: db-update timed out or canceled", "db-update")
    /\ JobExit(id)
    /\ Abandon("db")
    /\ resp' = NoResp
    /\ UNCHANGED <<clockVars, crashed, confVars, callVars, rplVars>>

\* com.RunThumbGen returned res and runThumbgen's select takes the result
\* (350-351), then 320-326
JobThumbRecv(id, res) ==
    /\ ~crashed
    /\ jpc[id] = "thumb"
    /\ IF res = "err"
       THEN Fail(id, "thumbgen failed: error", "thumbgen")
       ELSE Succeed(id)
    /\ JobExit(id)
    /\ resp' = NoResp
    /\ UNCHANGED <<clockVars, crashed, confVars, callVars, rplVars, orphans>>

\* runThumbgen's select takes ctx.Done() (348-349); com.RunThumbGen goes on
JobThumbTimeout(id) ==
    /\ ~crashed
    /\ jpc[id] = "thumb"
    /\ now >= jdeadline[id]
    /\ Fail(id, "thumbgen failed: thumbgen timed out or canceled", "thumbgen")
    /\ JobExit(id)
    /\ Abandon("thumb")
    /\ resp' = NoResp
    /\ UNCHANGED <<clockVars, crashed, confVars, callVars, rplVars>>

\* A panic on the job's own goroutine in lines 313-326, while a stage
\* executes: the deferred recover (307-311); the stage's goroutine goes on
JobPanic(id) ==
    /\ ~crashed
    /\ jpc[id] \in {"db", "thumb"}
    /\ Fail(id, "panic: rec", "panic")
    /\ JobExit(id)
    /\ Abandon(jpc[id])
    /\ resp' = NoResp
    /\ UNCHANGED <<clockVars, crashed, confVars, callVars, rplVars>>

\* ------------------------------------------------------------- the workers
\* Executions of com.RunDBUpdate (kind "db") / com.RunThumbGen ("thumb") in
\* progress: those a job or a repopulate request waits for, and the orphans.
Running(kind) ==
    Cardinality({i \in RunIds : jpc[i] = kind})
    + Cardinality({r \in RplCallers : rpc[r] = kind})
    + orphans[kind]

\* An abandoned com.RunDBUpdate / com.RunThumbGen returns; nobody reads ch
OrphanReturn(kind) ==
    /\ ~crashed
    /\ orphans[kind] > 0
    /\ orphans' = [orphans EXCEPT ![kind] = @ - 1]
    /\ resp' = NoResp
    /\ UNCHANGED <<clockVars, crashed, confVars, updVars, callVars, jobVars, rplVars>>

\* com.RunDBUpdate / com.RunThumbGen panics.  The goroutine of lines 260-263
\* (343-346, 369-372, 384-387) defers no recover, and the recover of another
\* goroutine does not apply: the Go runtime terminates the process.
WorkerPanic(kind) ==
    /\ ~crashed
    /\ Running(kind) > 0
    /\ crashed' = TRUE
    /\ resp' = NoResp
    /\ UNCHANGED <<clockVars, confVars, updVars, callVars, jobVars, rplVars, orphans>>

\* ----------------------------------------------- UpdateHandler.ServeStatus
StatusOfNoError(inProg, started, finished, stp, err) ==
    [ep |-> "status", code |-> 200,
     updated |-> ~inProg /\ ~IsZero(started),
     inProgress |-> inProg,
     startedAt |-> started,
     step |-> stp,
     durationMs |-> IF ~IsZero(finished) /\ ~IsZero(started)
                    THEN Milliseconds(finished - started) ELSE 0,
     message |-> IF err # "" THEN err ELSE IF inProg THEN "running" ELSE "idle"]

\* Lines 238-253
StatusOf(inProg, started, finished, stp, err) ==
    [ep |-> "status", code |-> 200,
     updated |-> ~inProg /\ ~IsZero(started) /\ err = "",
     inProgress |-> inProg,
     startedAt |-> started,
     step |-> stp,
     durationMs |-> IF ~IsZero(finished) /\ ~IsZero(started)
                    THEN Milliseconds(finished - started) ELSE 0,
     message |-> IF err # "" THEN err ELSE IF inProg THEN "running" ELSE "idle"]

\* Lines 223-255
ServeStatus(m) ==
    /\ ~crashed
    /\ resp' = IF m # "GET"
               THEN [ep |-> "status", code |-> 405, message |-> "method not allowed"]
               ELSE StatusOf(inFlight, startedAt, finishedAt, step, lastErr)
    /\ UNCHANGED <<clockVars, crashed, confVars, updVars, callVars, jobVars,
                   rplVars, orphans>>

\* --------------------------------------------- RepopulateHandler.ServeHTTP
\* Lines 134-170: method check, preflight, cool (computed, never compared)
\* and the read of h.inFlight, which no lock protects.
RplBegin(r, m) ==
    /\ ~crashed
    /\ rpc[r] = "idle"
    /\ resp' = IF Preflight("repopulate", m) # NoResp
               THEN Preflight("repopulate", m)
               ELSE IF rInFlight
               THEN Resp("repopulate", 429, "update already in progress", TRUE, 0,
                         "gate", ZeroTime)
               ELSE NoResp
    /\ rpc' = IF resp' = NoResp THEN [rpc EXCEPT ![r] = "reserve"] ELSE rpc
    /\ UNCHANGED <<clockVars, crashed, confVars, updVars, callVars, jobVars,
                   rInFlight, rLastRun, orphans>>

\* Lines 173-188 and the start of runDBRepopulate (382-387)
RplReserve(r) ==
    /\ ~crashed
    /\ rpc[r] = "reserve"
    /\ rInFlight' = TRUE
    /\ rpc' = [rpc EXCEPT ![r] = "db"]
    /\ resp' = NoResp
    /\ UNCHANGED <<clockVars, crashed, confVars, updVars, callVars, jobVars,
                   rLastRun, orphans>>

RplFailKeepsSlot(r, msg, s) ==
    /\ resp' = Resp("repopulate", 500, msg, FALSE, 0, s, ZeroTime)
    /\ rpc' = [rpc EXCEPT ![r] = "idle"]
    /\ UNCHANGED <<rInFlight, rLastRun>>

\* Lines 189-197, 201-209: a stage failed
RplFail(r, msg, s) ==
    /\ rInFlight' = FALSE
    /\ resp' = Resp("repopulate", 500, msg, FALSE, 0, s, ZeroTime)
    /\ rpc' = [rpc EXCEPT ![r] = "idle"]
    /\ UNCHANGED rLastRun

\* com.RunDBUpdate(repopulate = true) returned res and runDBRepopulate's
\* select takes the result (391-392), then 188-200 and runThumbgen up to its
\* select (356-372)
RplDbRecv(r, res, ping) ==
    /\ ~crashed
    /\ rpc[r] = "db"
    /\ IF res = "err"
       THEN RplFail(r, "db-update failed: error", "db-update")
       ELSE IF ping = "err"
       THEN RplFail(r, "thumbgen failed: ping db", "thumbgen")
       ELSE /\ rpc' = [rpc EXCEPT ![r] = "thumb"]
            /\ resp' = NoResp
            /\ UNCHANGED <<rInFlight, rLastRun>>
    /\ UNCHANGED <<clockVars, crashed, confVars, updVars, callVars, jobVars, orphans>>

\* runDBRepopulate's select takes ctx.Done() (389-390): the 10 minutes of
\* context.WithTimeout(r.Context(), ...) passed, or the request was canceled
\* (the client went away), which can happen at any time.
RplDbCancel(r) ==
    /\ ~crashed
    /\ rpc[r] = "db"
    /\ RplFail(r, "db-update failed: db-repopulate timed out or canceled", "db-update")
    /\ Abandon("db")
    /\ UNCHANGED <<clockVars, crashed, confVars, updVars, callVars, jobVars>>

\* com.RunThumbGen returned res and runThumbgen's select takes the result
\* (376-377), then 200-220
RplThumbRecv(r, res) ==
    /\ ~crashed
    /\ rpc[r] = "thumb"
    /\ IF res = "err"
       THEN RplFail(r, "thumbgen failed: error", "thumbgen")
       ELSE /\ rLastRun' = now
            /\ rInFlight' = FALSE
            /\ resp' = Resp("repopulate", 200, "update completed", FALSE, 0, "",
                            ZeroTime)
            /\ rpc' = [rpc EXCEPT ![r] = "idle"]
    /\ UNCHANGED <<clockVars, crashed, confVars, updVars, callVars, jobVars, orphans>>

\* runThumbgen's select takes ctx.Done() (374-375)
RplThumbCancel(r) ==
    /\ ~crashed
    /\ rpc[r] = "thumb"
    /\ RplFail(r, "thumbgen failed: thumbgen timed out or canceled", "thumbgen")
    /\ Abandon("thumb")
    /\ UNCHANGED <<clockVars, crashed, confVars, updVars, callVars, jobVars>>

\* A panic on the request's goroutine after line 177: the deferred recover
\* (177-182) clears the flag; the handler returns without writing a body.
RplPanic(r) ==
    /\ ~crashed
    /\ rpc[r] \in {"db", "thumb"}
    /\ rInFlight' = FALSE
    /\ resp' = Resp("repopulate", 200, "", FALSE, 0, "", ZeroTime)
    /\ rpc' = [rpc EXCEPT ![r] = "idle"]
    /\ Abandon(rpc[r])
    /\ UNCHANGED <<clockVars, crashed, confVars, updVars, callVars, jobVars, rLastRun>>

\* ---------------------------------------------------------------- the clock
ActiveJobs == {i \in RunIds : jpc[i] \in {"spawned", "db", "thumb"}}

\* The timers that depend on the clock: the deadline of a job that waits in
\* a select, and the cooldown that started with the last successful run
DeadlinePending == \E i \in RunIds : jpc[i] \in {"db", "thumb"} /\ now < jdeadline[i]
CooldownPending == CooldownActive(now, lastRun, Cool(CooldownSec))

\* Time passes, d ticks, while a timer is pending: by the timeout, or by
\* SmallTick while the cooldown is pending.
Tick(d) ==
    /\ ~crashed
    /\ \/ d = TimeoutTicks /\ (DeadlinePending \/ CooldownPending)
       \/ d = SmallTick /\ CooldownPending
    /\ now' = now + d
    /\ resp' = NoResp
    /\ UNCHANGED <<crashed, confVars, updVars, callVars, jobVars, rplVars, orphans>>

\* /api/update for at most n concurrent requests, the jobs and the status
\* endpoint
UpdNext(n) ==
    \/ \E m \in {"POST", "GET"} : StartBegin(m, n)
    \/ \E k \in 1..n : StartGate(k)
    \/ \E i \in RunIds : JobBegin(i)
    \/ \E i \in RunIds, res \in {"ok", "err"}, ping \in {"ok", "err"} :
          JobDbRecv(i, res, ping)
    \/ \E i \in RunIds : JobDbTimeout(i)
    \/ \E i \in RunIds, res \in {"ok", "err"} : JobThumbRecv(i, res)
    \/ \E i \in RunIds : JobThumbTimeout(i)
    \/ \E i \in RunIds : JobPanic(i)
    \/ \E m \in {"GET", "POST"} : ServeStatus(m)

\* /api/repopulate for the clients R
RplNext(R) ==
    \/ \E r \in R, m \in {"POST", "GET"} : RplBegin(r, m)
    \/ \E r \in R : RplReserve(r)
    \/ \E r \in R, res \in {"ok", "err"}, ping \in {"ok", "err"} : RplDbRecv(r, res, ping)
    \/ \E r \in R : RplDbCancel(r)
    \/ \E r \in R, res \in {"ok", "err"} : RplThumbRecv(r, res)
    \/ \E r \in R : RplThumbCancel(r)
    \/ \E r \in R : RplPanic(r)

\* The abandoned goroutines and the panics inside the stages
EnvNext ==
    \/ \E kind \in {"db", "thumb"} : OrphanReturn(kind)
    \/ \E kind \in {"db", "thumb"} : WorkerPanic(kind)

\* The clock
ClockNext == \E d \in TickSteps : Tick(d)

\* The asynchronous scheduler
Next == UpdNext(NCallers) \/ EnvNext \/ ClockNext

Spec == Init /\ [][Next]_vars

\* The synchronous repopulate handler; none of its steps reads the clock
RplOnlyNext == RplNext(RplCallers) \/ EnvNext

RplSpec == Init /\ [][RplOnlyNext]_vars

\* The whole server, both handlers over the same reconciler, with one request
\* at a time to each endpoint
SysNext == UpdNext(1) \/ RplNext({1}) \/ EnvNext \/ ClockNext

SysSpec == Init /\ [][SysNext]_vars

\* ======================================================================
\* Claims
\* ======================================================================

\* A step in which the gate of POST /api/update ran (a waiting request left)
GateStep == Len(gateq') < Len(gateq)

\* The request that ran the gate in this step, and its now
GateReq == CHOOSE e \in {gateq[k] : k \in 1..Len(gateq)} :
               \E k \in 1..Len(gateq) : gateq[k] = e /\ gateq' = Remove(gateq, k)
GateNow == GateReq.now

\* A step that accepted a run
AcceptStep == runID' # runID

IsUpd(r, msg) == r.ep = "update" /\ r.message = msg

C2_NoOverlap == Running("db") <= 1

\* (cooldown - elapsed) in ticks, rounded to the nearest second, halves up
NearestSec(d) ==
    CHOOSE n \in (d \div TicksPerSec)..(d \div TicksPerSec + 1) :
        /\ 2 * (n * TicksPerSec - d) <= TicksPerSec
        /\ 2 * (d - n * TicksPerSec) < TicksPerSec

\* The gate ran with no run in flight and less than the cooldown elapsed
\* since the last successful run
CooldownCase ==
    /\ GateStep /\ ~inFlight /\ ~IsZero(lastRun)
    /\ GateNow - lastRun < Cool(CooldownSec)

\* C3 as stated: such a request is rejected with "cooldown active" and a
\* positive remaining-cooldown value equal to (cooldown - elapsed) rounded to
\* the nearest second
C3_Original ==
    [][ CooldownCase =>
          /\ IsUpd(resp', "cooldown active")
          /\ resp'.cooldownSec > 0
          /\ resp'.cooldownSec = NearestSec(Cool(CooldownSec) - (GateNow - lastRun))
      ]_vars

\* C3 amended: such a request is rejected with "cooldown active" and changes
\* nothing; the value it carries is (cooldown - elapsed) rounded to the
\* nearest second, which is positive exactly when at least half a second of
\* the cooldown remains
C3_Cooldown ==
    [][ CooldownCase =>
          /\ IsUpd(resp', "cooldown active") /\ resp'.code = 429
          /\ UNCHANGED <<updVars, jobVars>>
          /\ resp'.cooldownSec = NearestSec(Cool(CooldownSec) - (GateNow - lastRun))
          /\ resp'.cooldownSec > 0 <=>
                 2 * (Cool(CooldownSec) - (GateNow - lastRun)) >= TicksPerSec
      ]_vars

\* C3 witness: a request made right after a successful run was rejected with
\* a positive remaining cooldown
C3_Witness ==
    /\ IsUpd(resp, "cooldown active") /\ resp.cooldownSec > 0
    /\ step = "done" /\ ~inFlight /\ now - lastRun < Cool(CooldownSec)

\* The repopulate requests that execute a run
RplRunning == {r \in RplCallers : rpc[r] \in {"db", "thumb"}}

\* C4: the gate of RepopulateHandler.  A repopulate run begins only when the
\* cooldown since the last successful repopulate run has elapsed, and at most
\* one repopulate run executes at a time
C4_RepopulateGate ==
    [][ /\ \A r \in RplCallers :
              (rpc[r] = "reserve" /\ rpc'[r] = "db") =>
                  ~CooldownActive(now, rLastRun, Cool(CooldownSec))
        /\ Cardinality(RplRunning') <= 1
      ]_vars

\* A step in which job i stops waiting for its stage because the context is
\* done
TimeoutStep(i) == JobDbTimeout(i) \/ JobThumbTimeout(i)

TimeoutErrs == {"db-update failed: db-update timed out or canceled",
                "thumbgen failed: thumbgen timed out or canceled"}

\* C5: when the job of a run finds the deadline expired while it waits for a
\* stage, the run is recorded as failed with a timeout error (lastErr
\* non-empty), step is the stage that was executing, and the in-flight flag
\* is cleared; this happens no earlier than 10 minutes after the run began,
\* and a Start() whose gate runs with the flag cleared is not rejected as
\* "in progress"
C5_Timeout ==
    [][ /\ \A i \in RunIds :
              TimeoutStep(i) =>
                  /\ i = runID /\ now >= jdeadline[i]
                  /\ lastErr' \in TimeoutErrs /\ lastErr' # ""
                  /\ step' = (IF jpc[i] = "db" THEN "db-update" ELSE "thumbgen")
                  /\ step' = step
                  /\ inFlight /\ ~inFlight'
                  /\ finishedAt' = now /\ now - startedAt >= TimeoutTicks
                  /\ jpc'[i] = "exit"
        /\ (lastErr' \in TimeoutErrs /\ lastErr' # lastErr) =>
              \E i \in RunIds : jpc[i] \in {"db", "thumb"} /\ now >= jdeadline[i]
        /\ (GateStep /\ ~inFlight) => ~IsUpd(resp', "update already in progress")
      ]_vars

\* C5 witness: after the run timed out in the thumbnail stage a Start() was
\* answered, and not with "in progress"
C5_Witness ==
    /\ lastErr = "thumbgen failed: thumbgen timed out or canceled"
    /\ step = "thumbgen" /\ ~inFlight /\ jpc[runID] = "exit"
    /\ finishedAt - startedAt >= TimeoutTicks
    /\ resp.ep = "update" /\ resp.code = 429 /\ resp.message = "cooldown active"

\* C6: a panic during an asynchronous run never terminates the host process
C6_NoCrash == ~crashed

\* The asynchronous scheduler under fair scheduling: a spawned job begins, the
\* deadline timer fires, and a job whose context is done takes ctx.Done()
LiveSpec ==
    /\ Spec
    /\ WF_vars(\E i \in RunIds : JobBegin(i))
    /\ WF_vars(Tick(TimeoutTicks))
    /\ WF_vars(\E i \in RunIds : JobDbTimeout(i) \/ JobThumbTimeout(i))

\* C7: every accepted run eventually reaches a terminal state and the
\* in-flight flag eventually becomes false
C7_NeverWedged == inFlight ~> (~inFlight /\ (step = "done" \/ lastErr # ""))

\* The position of the job of the current run
CurPc == IF runID = 0 THEN "none" ELSE jpc[runID]

\* C8: within one accepted run step is "queued", then "db-update", then
\* "thumbgen", then "done"; the thumbnail stage starts only from the
\* reconciliation stage and with no error recorded; a failure leaves the run
\* with the flag cleared, its job ended and an error recorded, and step does
\* not change again before the next run is accepted
C8_StageOrder ==
    [][ /\ (step' # step) =>
              \/ AcceptStep /\ step' = "queued"
              \/ step = "queued" /\ step' = "db-update" /\ inFlight'
              \/ step = "db-update" /\ step' = "thumbgen" /\ inFlight
              \/ step = "thumbgen" /\ step' = "done" /\ ~inFlight' /\ lastErr' = ""
              \/ inFlight /\ ~inFlight' /\ step' = "panic" /\ lastErr' # ""
        /\ \A i \in RunIds :
              (jpc'[i] = "thumb" /\ jpc[i] # "thumb") =>
                  /\ jpc[i] = "db" /\ i = runID
                  /\ step = "db-update" /\ step' = "thumbgen"
                  /\ inFlight' /\ lastErr' = ""
        /\ (inFlight /\ ~inFlight' /\ lastErr' # "") =>
              /\ step' \in {step, "thumbgen", "panic"}
              /\ CurPc' = "exit"
        /\ CurPc' = "spawned" => step' = "queued"
        /\ CurPc' = "db" => step' = "db-update"
        /\ CurPc' = "thumb" => step' = "thumbgen"
        /\ (CurPc' = "exit" /\ lastErr' = "") => step' = "done"
        /\ (~inFlight /\ ~AcceptStep) => step' = step
      ]_vars

\* C8 witness: a run went through all the stages
C8_Witness ==
    /\ runID = 1 /\ jpc[1] = "exit" /\ step = "done" /\ lastErr = ""
    /\ ~inFlight /\ lastRun = finishedAt

\* An answer of POST /api/update that rejects the request
IsReject(r) == r.ep = "update" /\ r.code \in {405, 429, 500}

\* C9: run identifiers increase: an accepted Start() assigns the identifier
\* that follows the last one assigned, and nothing else changes it; a rejected
\* Start() leaves the identifier and the scheduler state unchanged
C9_RunIdMonotonic ==
    [][ /\ runID' >= runID
        /\ (resp'.ep = "update" /\ resp'.code = 202) => runID' = runID + 1
        /\ (runID' # runID) =>
              /\ runID' = runID + 1
              /\ resp'.ep = "update" /\ resp'.code = 202
              /\ jpc[runID'] = "none" /\ jpc'[runID'] = "spawned"
        /\ IsReject(resp') => UNCHANGED <<updVars, jobVars>>
      ]_vars

\* C9 witness: after a second run was accepted a Start() was rejected
C9_Witness == runID = 2 /\ IsReject(resp) /\ resp.code = 429

\* A step in which GET on the status endpoint was answered
StatusStep == resp'.ep = "status" /\ resp'.code = 200

\* The run has finished
Finished == ~IsZero(finishedAt)

\* What C10 says of every field but the duration
StatusFields(r) ==
    /\ r.updated <=> (~inFlight /\ ~IsZero(startedAt) /\ lastErr = "")
    /\ r.inProgress <=> inFlight
    /\ r.startedAt = startedAt /\ r.step = step
    /\ lastErr # "" => r.message = lastErr

\* C10 as stated: the response carries a duration, equal to finishedAt minus
\* startedAt, exactly when the run has finished
C10_Original ==
    [][ StatusStep =>
          /\ StatusFields(resp')
          /\ (resp'.durationMs # 0) <=> Finished
          /\ Finished => resp'.durationMs = Milliseconds(finishedAt - startedAt)
      ]_vars

\* C10 amended: Status() reports updated, in_progress, step and the last error
\* from the state; its duration is finishedAt minus startedAt in whole
\* milliseconds when the run has finished and zero (no duration) otherwise,
\* so that no duration is carried while a run is in flight or when the run
\* took less than a millisecond; finishedAt is written once per accepted run,
\* when the flag is cleared
C10_Status ==
    [][ /\ StatusStep =>
              /\ StatusFields(resp')
              /\ resp'.durationMs =
                    (IF Finished THEN Milliseconds(finishedAt - startedAt) ELSE 0)
              /\ inFlight => resp'.durationMs = 0
              /\ UNCHANGED <<updVars, jobVars>>
        /\ inFlight' => ~Finished'
        /\ (~inFlight' /\ runID' > 0) => Finished' /\ finishedAt' >= startedAt'
        /\ (finishedAt' # finishedAt) =>
              \/ AcceptStep /\ ~Finished'
              \/ inFlight /\ ~inFlight' /\ ~Finished /\ finishedAt' = now
      ]_vars

\* C10 witness: Status() after a run that lasted 10 minutes and failed
C10_Witness ==
    /\ resp.ep = "status" /\ resp.code = 200
    /\ resp.durationMs = Milliseconds(TimeoutTicks) /\ ~resp.updated
    /\ resp.message = lastErr /\ lastErr # "" /\ ~inFlight

\* ======================================================================
\* The reconciler (com/db-update.go)
\* ======================================================================
\* A string that the code searches letter by letter is a sequence of
\* one-letter strings.
Uppers ==
    <<"A", "B", "C", "D", "E", "F", "G", "H", "I", "J", "K", "L", "M", 
     "N", "O", "P", "Q", "R", "S", "T", "U", "V", "W", "X", "Y", "Z">>
Lowers ==
    <<"a", "b", "c", "d", "e", "f", "g", "h", "i", "j", "k", "l", "m", 
     "n", "o", "p", "q", "r", "s", "t", "u", "v", "w", "x", "y", "z">>

\* unicode.ToLower of one letter
Lower(ch) ==
    IF \E i \in 1..Len(Uppers) : Uppers[i] = ch
    THEN Lowers[CHOOSE i \in 1..Len(Uppers) : Uppers[i] = ch]
    ELSE ch

\* strings.ToLower
ToLower(s) == [i \in 1..Len(s) |-> Lower(s[i])]

\* strings.Contains
Contains(s, sub) ==
    \E i \in 0..(Len(s) - Len(sub)) : SubSeq(s, i + 1, i + Len(sub)) = sub

\* strings.ContainsAny(p, "*/")
IsGlob(p) == \E i \in 1..Len(p) : p[i] \in {"*", "/"}

\* filepath.Match for patterns made of letters and '*'
RECURSIVE GlobMatch(_, _)
GlobMatch(pat, name) ==
    IF pat = <<>> THEN name = <<>>
    ELSE IF Head(pat) = "*"
    THEN \E k \in 0..Len(name) :
            /\ \A i \in 1..k : name[i] # "/"
            /\ GlobMatch(Tail(pat), SubSeq(name, k + 1, Len(name)))
    ELSE name # <<>> /\ Head(name) = Head(pat) /\ GlobMatch(Tail(pat), Tail(name))

\* filepath.Ext: the suffix beginning at the last dot, "" without a dot
Ext(name) ==
    LET dots == {i \in 1..Len(name) : name[i] = "."}
    IN  IF dots = {} THEN <<>>
        ELSE SubSeq(name, CHOOSE i \in dots : \A j \in dots : j <= i, Len(name))

\* strings.TrimSuffix(name, filepath.Ext(name))
TrimExt(name) == SubSeq(name, 1, Len(name) - Len(Ext(name)))

ImageExts == {<<".", "j", "p", "g">>, <<".", "j", "p", "e", "g">>,
              <<".", "p", "n", "g">>, <<".", "g", "i", "f">>,
              <<".", "w", "e", "b", "p">>}

\* Lines 258-261: (?i)\.(jpg|jpeg|png|gif|webp)$
IsImageFile(name) ==
    \E e \in ImageExts :
        /\ Len(name) >= Len(e)
        /\ SubSeq(ToLower(name), Len(name) - Len(e) + 1, Len(name)) = e

\* Lines 276-281
BoolToInt(b) == IF b THEN 1 ELSE 0

\* strings.TrimSpace of a label, which is "" or " " or has no space
TrimSpace(s) == IF s = " " THEN "" ELSE s

\* ------------------------------------------------------- the configuration
\* config.ImageDirConfig
DirRule(sensor, filled, vpix, corrected, composite) ==
    [sensor |-> sensor, isFilled |-> filled, vPix |-> vpix,
     isCorrected |-> corrected, composite |-> composite]

\* PassConfig.Composites
Dict == (<<"g">> :> "G") @@ (<<"G", "I">> :> "GI")

DirA == <<"A">>
DirB == <<"B">>
GlobA == <<"A", "*">>

AptDirs == DirA :> DirRule("s1", FALSE, 0, FALSE, "")
AptDirsTwice == AptDirs @@ (GlobA :> DirRule("s1", FALSE, 0, FALSE, ""))
LrptDirs == DirB :> DirRule("s2", TRUE, 7, TRUE, "RGB")

\* config.PassTypeConfig of an unknown pass type: the zero value
NoPassType == [imageDirs |-> <<>>]

\* One pass type per folder
CfgClean ==
    [composites |-> Dict,
     passTypes |-> ("apt" :> [imageDirs |-> AptDirs]) @@
                   ("lrpt" :> [imageDirs |-> LrptDirs]),
     folderIncludes |-> (<<"n">> :> "apt") @@ (<<"M", "*">> :> "lrpt")]

\* Two folder patterns of different pass types match folder N1
CfgOverlap ==
    [composites |-> Dict,
     passTypes |-> ("apt" :> [imageDirs |-> AptDirs]) @@
                   ("lrpt" :> [imageDirs |-> LrptDirs]),
     folderIncludes |-> (<<"n">> :> "apt") @@ (<<"1">> :> "lrpt")]

\* Two image-directory entries of pass type apt resolve to directory A
CfgTwice ==
    [composites |-> Dict,
     passTypes |-> ("apt" :> [imageDirs |-> AptDirsTwice]) @@
                   ("lrpt" :> [imageDirs |-> LrptDirs]),
     folderIncludes |-> (<<"n">> :> "apt") @@ (<<"M", "*">> :> "lrpt")]

PassCfgs == <<CfgClean, CfgOverlap, CfgTwice>>

\* c.passCfg
PassCfg == PassCfgs[pcfg]

\* c.passCfg.PassTypes[name]
PassTypeOf(name) ==
    IF name \in DOMAIN PassCfg.passTypes THEN PassCfg.passTypes[name]
    ELSE NoPassType

\* ----------------------------------------------------------------- the disk
\* The folders that may appear under live_output_dir, and the files that
\* the decoder may write in a folder, by directory and file name: images in
\* two directories of N1; M2 is a pass folder without images
FolderN == <<"N", "1">>
FolderM == <<"M", "2">>
TopDirs == {FolderN, FolderM}

FileGi == [stem |-> <<"g", "i">>, ext |-> <<".", "p", "n", "g">>, height |-> 5]
DiskFiles(d) ==
    IF d = FolderN
    THEN {[dir |-> DirA, file |-> FileGi], [dir |-> DirB, file |-> FileGi]}
    ELSE {}

\* os.DirEntry.Name()
FileName(f) == f.stem \o f.ext

\* The files of folder d, none when it is not there
FilesOf(d) == IF d \in DOMAIN fs THEN fs[d].files ELSE {}

\* Lines 405-422: the latest modification time under root, the zero time
\* when root cannot be read
LatestModTimeOfTree(root) == IF root \in DOMAIN fs THEN fs[root].mtime ELSE ZeroTime

RescanMin == 30
RescanTicks == RescanMin * 60 * TicksPerSec

\* Lines 424-432
NeedsRescanFromMTime(latest, n) ==
    IF IsZero(latest) THEN 1
    ELSE IF n - latest > RescanTicks THEN 0
    ELSE 1

\* ------------------------------------------------------ the image classifier
CorrectedMark == <<"_", "c", "o", "r", "r", "e", "c", "t", "e", "d">>
MapMark == <<"m", "a", "p">>

\* The orders in which a range statement can visit the keys S of a map
Perms(S) ==
    {o \in [1..Cardinality(S) -> S] : \A i, j \in DOMAIN o : i # j => o[i] # o[j]}

AnyOrder(composites) == Perms(DOMAIN composites)

\* Lines 451-455: compKeys, filled in map order and sorted by sort.Slice on
\* the length alone, longest first: keys of one length come in any order
SortedKeys(composites) ==
    {o \in Perms(DOMAIN composites) :
        \A i, j \in DOMAIN o : i < j => Len(o[i]) >= Len(o[j])}

\* Lines 477 and 494-505: chosen, for the list compKeys
Chosen(name, composites, override, compKeys) ==
    LET lcRaw == ToLower(TrimExt(name))
        hits == {i \in DOMAIN compKeys : Contains(lcRaw, ToLower(compKeys[i]))}
        overrideComp == TrimSpace(override)
    IN  IF overrideComp # "" THEN overrideComp
        ELSE IF hits = {} THEN "Other"
        ELSE composites[compKeys[CHOOSE i \in hits : \A j \in hits : i <= j]]

\* Lines 450-505: the labels that processPassType can choose for a file
ChosenLabels(name, composites, override) ==
    {Chosen(name, composites, override, o) : o \in SortedKeys(composites)}

\* Lines 481-518: the Image of file f of folder, under rule; its PassID is
\* not set yet
ImageOf(folder, f, rule) ==
    [path |-> <<folder, f.dir, FileName(f.file)>>,
     composite |-> CHOOSE l \in ChosenLabels(FileName(f.file), PassCfg.composites,
                                             rule.composite) : TRUE,
     sensor |-> rule.sensor,
     mapOverlay |-> BoolToInt(Contains(ToLower(FileName(f.file)), MapMark)),
     corrected |-> BoolToInt(rule.isCorrected
                             \/ Contains(FileName(f.file), CorrectedMark)),
     filled |-> BoolToInt(rule.isFilled),
     vPixels |-> IF rule.vPix # 0 THEN rule.vPix ELSE f.file.height,
     passId |-> 0]

\* Lines 460-469: the directories of folder that entry key of ImageDirs scans
ScanDirs(folder, key) ==
    IF \E i \in 1..Len(key) : key[i] = "*"
    THEN {f.dir : f \in {g \in FilesOf(folder) : GlobMatch(key, g.dir)}}
    ELSE {key}

\* Lines 457-522: what the loops append to images, entry by entry
Scanned(folder, passType) ==
    {[key |-> k, img |-> ImageOf(folder, f, passType.imageDirs[k])] :
        k \in DOMAIN passType.imageDirs,
        f \in {g \in FilesOf(folder) : IsImageFile(FileName(g.file))}}

\* Lines 437-524, processPassType: the list images, as a bag
ScanBag(folder, passType) ==
    LET hits == {x \in Scanned(folder, passType) :
                    x.img.path[2] \in ScanDirs(folder, x.key)}
    IN  [i \in {x.img : x \in hits} |-> Cardinality({x \in hits : x.img = i})]

\* ------------------------------------------------------------ the catalog
\* A row of passes.  Of its columns the model keeps id, name, satellite and
\* needsRescan.
PassRow(id, name, satellite, flag) ==
    [id |-> id, name |-> name, satellite |-> satellite, needsRescan |-> flag]

\* A row of images, inserted for pass pid (lines 625-629)
ImageRow(img, pid) ==
    [path |-> img.path, composite |-> img.composite, sensor |-> img.sensor,
     mapOverlay |-> img.mapOverlay, corrected |-> img.corrected,
     filled |-> img.filled, vPixels |-> img.vPixels, passId |-> pid,
     needsThumb |-> 1]

\* Lines 303-320, getAllExistingPasses
ExistingPasses ==
    {[name |-> p.name, id |-> p.id, needsRescan |-> p.needsRescan] : p \in passes}

\* Lines 592-604: SELECT path FROM images WHERE passId = ?
StoredPaths(pid) == {r.path : r \in {x \in BagToSet(images) : x.passId = pid}}

\* Lines 606-612: the scanned images whose path is not stored for the pass,
\* as rows
NewImages(scan, pid) ==
    LET keep == {i \in DOMAIN scan : i.path \notin StoredPaths(pid)}
    IN  [r \in {ImageRow(i, pid) : i \in keep} |->
            scan[CHOOSE i \in keep : ImageRow(i, pid) = r]]

\* Lines 560-584: does the UPDATE or INSERT of the pass row fail
PassWriteFails(folder, existingPassID, fault) ==
    \/ fault = "pass"
    \/ existingPassID = 0 /\ \E p \in passes : p.name = folder

PassIdFresh(existingPassID) == seq + 1

\* Lines 561-584: passID
PassIdFor(existingPassID) == IF existingPassID > 0 THEN existingPassID ELSE seq + 1

\* Lines 526-645, processPassOptimized: the error it returns
PassErr(folder, scan, existingPassID, fault) ==
    \/ PassWriteFails(folder, existingPassID, fault)
    \/ /\ fault = "tx"
       /\ NewImages(scan, PassIdFor(existingPassID)) # EmptyBag

BatchInsertNoTx(new, fault) ==
    IF new = EmptyBag THEN images
    ELSE IF fault = "tx" THEN images (+) SetToBag({CHOOSE r \in BagToSet(new) : TRUE})
    ELSE images (+) new

\* Lines 586-644: table images after the batch; the rows of new are inserted
\* in one transaction, which the deferred Rollback undoes when a statement
\* or the Commit fails.  No transaction is begun for an empty batch.
BatchInsert(new, fault) ==
    IF new = EmptyBag \/ fault = "tx" THEN images
    ELSE images (+) new

\* Lines 526-645, processPassOptimized: what it does to the catalog
ProcessPassOptimized(folder, scan, existingPassID, code, fault) ==
    LET flag == NeedsRescanFromMTime(LatestModTimeOfTree(folder), now)
        pid == PassIdFor(existingPassID)
        new == NewImages(scan, pid)
    IN  IF PassWriteFails(folder, existingPassID, fault)
        THEN UNCHANGED <<passes, images, seq>>
        ELSE /\ IF existingPassID > 0
                THEN /\ passes' = {IF p.id = pid
                                   THEN PassRow(p.id, p.name, code, flag)
                                   ELSE p : p \in passes}
                     /\ seq' = seq
                ELSE /\ passes' = passes \cup {PassRow(pid, folder, code, flag)}
                     /\ seq' = seq + 1
             /\ images' = BatchInsert(new, fault)

\* ------------------------------------------------------ the reconciler runs
MaxDbSteps == 1      \* clock steps of the reconciler's specification

schedVars == <<crashed, cfgState, updVars, callVars, jobVars, rplVars, orphans, resp>>

\* Lines 817-846: the folders on disk that pattern p reaches
Matches(p) ==
    IF IsGlob(p) THEN {d \in DOMAIN fs : GlobMatch(p, d)}
    ELSE {d \in DOMAIN fs : Contains(ToLower(d), ToLower(p))}

\* Lines 811-847: the map candidates when FolderIncludes is visited in order;
\* the first pattern to reach a folder gives the folder its pass type
Candidates(order) ==
    {[relFolder |-> d,
      typeName |-> PassCfg.folderIncludes[
                      order[CHOOSE i \in DOMAIN order :
                              /\ d \in Matches(order[i])
                              /\ \A j \in 1..(i - 1) : d \notin Matches(order[j])]]] :
        d \in {e \in DOMAIN fs : \E i \in DOMAIN order : e \in Matches(order[i])}}

\* Lines 393-401, clearTables: both tables emptied, the row counters reset
ClearTables == passes' = {} /\ images' = EmptyBag /\ seq' = 0

WipesAlways(repopulate) == TRUE

\* Line 935: does RunDBUpdate clear the tables before it reconciles
Wipes(repopulate) == repopulate

\* Lines 895-942 with 769-847: RunDBUpdate up to the loop over candidates.
\* repopulate clears the tables first (lines 393-401).
RunStart(repopulate, order) ==
    /\ run.pc = "idle"
    /\ order \in Perms(DOMAIN PassCfg.folderIncludes)
    /\ IF Wipes(repopulate)
       THEN ClearTables
       ELSE UNCHANGED <<passes, images, seq>>
    /\ run' = [pc |-> "loop",
               mode |-> IF repopulate THEN 0 ELSE 1,
               existing |-> IF repopulate THEN {} ELSE ExistingPasses,
               cands |-> Candidates(order),
               added |-> 0, skipped |-> 0, failed |-> FALSE, result |-> "none"]
    /\ hist' = IF repopulate THEN NoHist
               ELSE [clean |-> TRUE, second |-> hist.clean]
    /\ UNCHANGED <<now, schedVars, pcfg, fs, funVars>>

SkipsNever(known) == FALSE

\* Lines 860-864: the candidate has a row that says "no rescan needed"
Skips(known) == known # {} /\ (CHOOSE e \in known : TRUE).needsRescan = 0

\* Lines 853-884: one turn of the loop, for candidate cnd; fault is the
\* statement of processPassOptimized that the store fails, if any
ProcessPass(cnd, fault) ==
    /\ run.pc = "loop"
    /\ cnd \in run.cands
    /\ LET known == {e \in run.existing : e.name = cnd.relFolder}
           found == known # {}
           existing == CHOOSE e \in known : TRUE
           passID == IF found THEN existing.id ELSE 0
           images0 == ScanBag(cnd.relFolder, PassTypeOf(cnd.typeName))
       IN  IF Skips(known)
           THEN /\ fault = "none"
                /\ run' = [run EXCEPT !.cands = @ \ {cnd}, !.skipped = @ + 1]
                /\ UNCHANGED <<passes, images, seq, hist>>
           ELSE /\ ProcessPassOptimized(cnd.relFolder, images0, passID,
                                        cnd.typeName, fault)
                /\ IF PassErr(cnd.relFolder, images0, passID, fault)
                   THEN /\ run' = [run EXCEPT !.cands = @ \ {cnd}, !.failed = TRUE]
                        /\ hist' = [hist EXCEPT !.clean = FALSE]
                   ELSE /\ fault = "none"
                        /\ run' = [run EXCEPT !.cands = @ \ {cnd}, !.added = @ + 1]
                        /\ UNCHANGED hist
    /\ UNCHANGED <<now, schedVars, pcfg, fs, funVars>>

\* Lines 886-891 and 932-941: the loop is over; processPasses returns nil and
\* so does RunDBUpdate
RunFinish ==
    /\ run.pc = "loop"
    /\ run.cands = {}
    /\ run' = [NoRun EXCEPT !.result = "nil"]
    /\ UNCHANGED <<now, schedVars, pcfg, fs, passes, images, seq, hist, funVars>>

\* Lines 657-677: the pass types updateMetadata can find for a stored pass
\* name; each pass ranges over FolderIncludes anew
MetaTypes(passName) ==
    LET hit == {p \in DOMAIN PassCfg.folderIncludes :
                  IF IsGlob(p) THEN GlobMatch(p, passName)
                  ELSE Contains(ToLower(passName), ToLower(p))}
    IN  IF hit = {} THEN {""} ELSE {PassCfg.folderIncludes[p] : p \in hit}

\* Lines 729-739: the rules for directory dirName, by exact name, else by
\* name up to case
DirConfigs(passType, dirName) ==
    IF dirName \in DOMAIN passType.imageDirs THEN {passType.imageDirs[dirName]}
    ELSE {passType.imageDirs[k] :
            k \in {q \in DOMAIN passType.imageDirs : ToLower(q) = ToLower(dirName)}}

MetaRowAndOverlay(r, typeName) == [r EXCEPT !.composite = "", !.mapOverlay = 1 - @]

\* Lines 716-762: the UPDATE of image row r, when its pass has type typeName
MetaRow(r, typeName) ==
    LET cfgs == DirConfigs(PassTypeOf(typeName), r.path[Len(r.path) - 1])
    IN  IF typeName = "" \/ typeName \notin DOMAIN PassCfg.passTypes \/ cfgs = {}
        THEN r
        ELSE LET dirConfig == CHOOSE c \in cfgs : TRUE
             IN  [r EXCEPT !.composite = dirConfig.composite,
                           !.sensor = dirConfig.sensor,
                           !.corrected = BoolToInt(dirConfig.isCorrected),
                           !.filled = BoolToInt(dirConfig.isFilled)]

\* Lines 944-985 with 648-767: RunDBMetadataUpdate; types gives each stored
\* pass the type its own range over FolderIncludes finds first.  An image
\* row of no stored pass is not visited.
MetadataRun(types) ==
    /\ run.pc = "idle"
    /\ types \in [{p.id : p \in passes} -> DOMAIN PassCfg.passTypes \cup {""}]
    /\ \A p \in passes : types[p.id] \in MetaTypes(p.name)
    /\ images' = BagOfAll(LAMBDA r : IF \E p \in passes : p.id = r.passId
                                     THEN MetaRow(r, types[r.passId]) ELSE r,
                          images)
    /\ run' = [NoRun EXCEPT !.result = "nil"]
    /\ hist' = NoHist
    /\ UNCHANGED <<now, schedVars, pcfg, fs, passes, seq, funVars>>

\* ------------------------------------------------- the disk and the clock
\* The decoder creates pass folder d.  A run is short against the decoder's
\* writes: the disk changes between two runs.
FsMkdir(d) ==
    /\ run.pc = "idle"
    /\ d \in TopDirs \ DOMAIN fs
    /\ fs' = (d :> [mtime |-> now, files |-> {}]) @@ fs
    /\ hist' = NoHist
    /\ UNCHANGED <<now, schedVars, pcfg, passes, images, seq, run, funVars>>

\* The decoder writes file f under pass folder d
FsWrite(d, f) ==
    /\ run.pc = "idle"
    /\ d \in DOMAIN fs
    /\ f \in DiskFiles(d)
    /\ f \notin fs[d].files \/ fs[d].mtime # now
    /\ fs' = [fs EXCEPT ![d] = [mtime |-> now, files |-> @.files \cup {f}]]
    /\ hist' = NoHist
    /\ UNCHANGED <<now, schedVars, pcfg, passes, images, seq, run, funVars>>

\* Pass folder d is removed from the disk
FsRmdir(d) ==
    /\ run.pc = "idle"
    /\ d \in DOMAIN fs
    /\ fs' = [e \in DOMAIN fs \ {d} |-> fs[e]]
    /\ hist' = NoHist
    /\ UNCHANGED <<now, schedVars, pcfg, passes, images, seq, run, funVars>>

\* Time passes: the rescan window, or one tick more
DbTickSteps == {RescanTicks, RescanTicks + 1}

DbTick(d) ==
    /\ run.pc = "idle"
    /\ now + d <= 1 + MaxDbSteps * (RescanTicks + 1)
    /\ now' = now + d
    /\ UNCHANGED <<schedVars, dbVars, funVars>>

StoreFaults == {"none", "pass", "tx"}

DbNext ==
    \/ \E rp \in BOOLEAN, o \in Perms(DOMAIN PassCfg.folderIncludes) : RunStart(rp, o)
    \/ \E c \in run.cands, ft \in StoreFaults : ProcessPass(c, ft)
    \/ RunFinish
    \/ \E ty \in [{p.id : p \in passes} -> DOMAIN PassCfg.passTypes \cup {""}] :
          MetadataRun(ty)
    \/ \E d \in TopDirs : FsMkdir(d)
    \/ \E d \in TopDirs : \E f \in DiskFiles(d) : FsWrite(d, f)
    \/ \E d \in TopDirs : FsRmdir(d)
    \/ \E d \in DbTickSteps : DbTick(d)

DbInit ==
    /\ SchedInit
    /\ cfgState = "ok"
    /\ pcfg \in 1..Len(PassCfgs)
    /\ fs = NoFs
    /\ passes = {}
    /\ images = EmptyBag
    /\ seq = 0
    /\ run = NoRun
    /\ hist = NoHist
    /\ FunIdle

\* The reconciler alone: runs of the three modes, one at a time, while the
\* disk and the clock change
DbSpec == DbInit /\ [][DbNext]_vars

\* ======================================================================
\* Claims about the reconciler
\* ======================================================================

\* C11. Idempotence of incremental mode: when an incremental run follows an
\* incremental run and the disk did not change since the first one began,
\* no step of the second run inserts an image row.
C11_Idempotent ==
    [][(run.pc = "loop" /\ run.mode = 1 /\ hist.second) => images' = images]_vars

\* C12. Uniqueness of image paths: no pass has two stored image rows with
\* the same path.
C12_UniquePaths ==
    \A r, q \in BagToSet(images) :
        /\ images[r] = 1
        /\ (r.passId = q.passId /\ r.path = q.path) => r = q

\* The candidates that a step of the loop has dealt with without a store
\* error: one of the counters added and skipped went up
Handled ==
    IF run.pc = "loop" /\ run'.pc = "loop"
       /\ (run'.added # run.added \/ run'.skipped # run.skipped)
    THEN run.cands \ run'.cands
    ELSE {}

\* C13. Rescan correctness: once a run has dealt with a candidate folder, the
\* stored needsRescan flag of its pass is 0 if the latest modification under
\* the folder is more than 30 minutes before the run, and 1 otherwise; also
\* when the flag was 0 before the run and the folder was modified since.
C13_RescanFlag ==
    [][\A c \in Handled :
          \E p \in passes' :
              /\ p.name = c.relFolder
              /\ p.needsRescan =
                    NeedsRescanFromMTime(LatestModTimeOfTree(c.relFolder), now)]_vars

\* ---------------------------------------------------- the pass timestamp
\* An int64 count of seconds q * 1000 + r with 0 <= r < 1000, or nil
W(q, r) == [null |-> FALSE, q |-> q, r |-> r]
Null == [null |-> TRUE, q |-> 0, r |-> 0]

Gt(a, b) == a.q > b.q \/ (a.q = b.q /\ a.r > b.r)

\* The float64 Dataset.Timestamp: (q * 1000 + r + frac / 4) seconds, negated
\* when neg
F(neg, q, r, frac) == [neg |-> neg, q |-> q, r |-> r, frac |-> frac]

\* dataset.Timestamp > 0
Positive(ds) == ~ds.neg /\ (ds.q > 0 \/ ds.r > 0 \/ ds.frac > 0)

\* int64(dataset.Timestamp): the fraction is dropped, toward zero
Int64(ds) ==
    IF ~ds.neg THEN W(ds.q, ds.r)
    ELSE IF ds.r = 0 THEN W(0 - ds.q, 0)
    ELSE W(0 - ds.q - 1, 1000 - ds.r)

\* Line 542: the literal 1735756467000 is FutureCutoffK * 1000
FutureCutoffK == 1735756467
FutureCutoff == W(FutureCutoffK, 0)

Digits == <<"0", "1", "2", "3", "4", "5", "6", "7", "8", "9">>
IsDigit(c) == \E i \in 1..10 : Digits[i] = c
DigitVal(c) == (CHOOSE i \in 1..10 : Digits[i] = c) - 1

RECURSIVE Atoi(_)
Atoi(s) == IF s = <<>> THEN 0
           ELSE 10 * Atoi(SubSeq(s, 1, Len(s) - 1)) + DigitVal(s[Len(s)])

\* filepath.Base of a path that does not end in a separator
Base(path) ==
    LET seps == {i \in 1..Len(path) : path[i] = "/"}
    IN  IF seps = {} THEN path
        ELSE SubSeq(path, (CHOOSE i \in seps : \A j \in seps : j <= i) + 1, Len(path))

\* Line 289: ^(\d{4})-(\d{2})-(\d{2})_(\d{2})-(\d{2})
PrefixShape == <<"d", "d", "d", "d", "-", "d", "d", "-", "d", "d", "_", "d", "d", "-", "d", "d">>
HasPrefix(name) ==
    /\ Len(name) >= Len(PrefixShape)
    /\ \A i \in 1..Len(PrefixShape) :
          IF PrefixShape[i] = "d" THEN IsDigit(name[i]) ELSE name[i] = PrefixShape[i]

IsLeap(y) == y % 4 = 0 /\ (y % 100 # 0 \/ y % 400 = 0)
MonthDays == <<31, 28, 31, 30, 31, 30, 31, 31, 30, 31, 30, 31>>
DaysIn(y, m) == IF m = 2 /\ IsLeap(y) THEN 29 ELSE MonthDays[m]

\* The leap years up to and including year n of the proleptic calendar
LeapsUpTo(n) == (n \div 4) - (n \div 100) + (n \div 400)

RECURSIVE DaysBeforeMonth(_, _)
DaysBeforeMonth(y, m) ==
    IF m = 1 THEN 0 ELSE DaysBeforeMonth(y, m - 1) + DaysIn(y, m - 1)

\* The days from 1970-01-01 to y-m-d
DaysFromEpoch(y, m, d) ==
    365 * (y - 1970) + (LeapsUpTo(y - 1) - LeapsUpTo(1969))
        + DaysBeforeMonth(y, m) + (d - 1)

\* time.Time.Unix() of y-m-d h:mi:00 UTC
Unix(y, m, d, h, mi) ==
    LET days == DaysFromEpoch(y, m, d)
        low == days * 400 + h * 3600 + mi * 60
    IN  W(days * 86 + (low \div 1000), low % 1000)

\* Lines 283-301
ExtractTimestampFromFolder(folderName) ==
    LET name == Base(folderName)
        y == Atoi(SubSeq(name, 1, 4))
        m == Atoi(SubSeq(name, 6, 7))
        d == Atoi(SubSeq(name, 9, 10))
        h == Atoi(SubSeq(name, 12, 13))
        mi == Atoi(SubSeq(name, 15, 16))
    IN  IF ~HasPrefix(name) THEN Null
        ELSE IF m < 1 \/ m > 12 THEN Null
        ELSE IF d < 1 \/ d > DaysIn(y, m) \/ h > 23 \/ mi > 59 THEN Null
        ELSE Unix(y, m, d, h, mi)

\* Lines 530-544: the timestamp that processPassOptimized stores for a pass
\* whose dataset file carries ds (the zero value when there is none)
StoredTimestamp(ds, passFolder) ==
    LET timestamp == IF Positive(ds) THEN Int64(ds) ELSE Null
    IN  IF timestamp.null \/ Gt(timestamp, FutureCutoff) \/ Gt(W(0, 1), timestamp)
        THEN ExtractTimestampFromFolder(passFolder)
        ELSE timestamp

\* 2024-05-01_12-30_NOAA19
FolderNoaa ==
    <<"2", "0", "2", "4", "-", "0", "5", "-", "0", "1", "_", "1", "2", "-", "3", "0",
      "_", "N", "O", "A", "A", "1", "9">>

FolderNames ==
    {FolderNoaa, FolderN,
     \* sub/2024-02-29_23-59: nested, a leap day
     <<"s", "u", "b", "/", "2", "0", "2", "4", "-", "0", "2", "-",
      "2", "9", "_", "2", "3", "-", "5", "9">>,
     \* NOAA19_2024-05-01_12-30: the prefix is not at the start
     <<"N", "O", "A", "A", "1", "9", "_", "2", "0", "2", "4", "-",
      "0", "5", "-", "0", "1", "_", "1", "2", "-", "3", "0">>,
     \* 2024-13-01_12-30: month 13
     <<"2", "0", "2", "4", "-", "1", "3", "-", "0", "1", "_", "1",
      "2", "-", "3", "0">>,
     \* 2023-02-29_12-30: no leap day
     <<"2", "0", "2", "3", "-", "0", "2", "-", "2", "9", "_", "1",
      "2", "-", "3", "0">>,
     \* 2024-05-01_24-00: hour 24
     <<"2", "0", "2", "4", "-", "0", "5", "-", "0", "1", "_", "2",
      "4", "-", "0", "0">>,
     \* 2100-01-01_00-00: the year 2100
     <<"2", "1", "0", "0", "-", "0", "1", "-", "0", "1", "_", "0",
      "0", "-", "0", "0">>,
     \* 1969-12-31_23-59: before the epoch
     <<"1", "9", "6", "9", "-", "1", "2", "-", "3", "1", "_", "2",
      "3", "-", "5", "9">>,
     \* 2024-5-1_12-30: one-digit fields
     <<"2", "0", "2", "4", "-", "5", "-", "1", "_", "1", "2", "-",
      "3", "0">>}

\* Dataset timestamps: none, negative, half a second, 2024-05-01T12:30:00.75Z,
\* 2100-01-01T00:00:00Z, the cutoff and the second after it
DsZero == F(FALSE, 0, 0, 0)
DatasetStamps ==
    {DsZero, F(TRUE, 0, 5, 0), F(FALSE, 0, 0, 2), F(FALSE, 1714566, 600, 3),
     F(FALSE, 4102444, 800, 0), F(FALSE, FutureCutoffK, 0, 0),
     F(FALSE, FutureCutoffK, 1, 0)}

\* time.Now() of the run: 2024-05-01T12:30:00Z, 2030-01-01T00:00:00Z
RunClocks == {W(1714566, 600), W(1893456, 0)}

\* The timestamp policy on its own: a dataset timestamp and a folder name
TsInit ==
    /\ SchedInit
    /\ cfgState = "ok"
    /\ DbIdle
    /\ \E ds \in DatasetStamps, f \in FolderNames, t \in RunClocks :
          arg = [fn |-> "timestamp", dataset |-> ds, folder |-> f, clock |-> t]
    /\ ret = NoArg

TsApply ==
    /\ arg.fn = "timestamp"
    /\ ret = NoArg
    /\ ret' = [fn |-> "timestamp", value |-> StoredTimestamp(arg.dataset, arg.folder)]
    /\ UNCHANGED <<now, schedVars, dbVars, arg>>

TsSpec == TsInit /\ [][TsApply]_vars

\* C14. Timestamp policy: the stored timestamp is the dataset timestamp
\* truncated to seconds when that is present, positive, not later than the
\* cutoff and not in the future; otherwise the epoch second of the
\* YYYY-MM-DD_HH-MM prefix of the folder's base name, null without one.  A
\* dataset timestamp of 0 with folder 2024-05-01_12-30_NOAA19 gives
\* 1714566600.
C14_TimestampPolicy ==
    ret.fn = "timestamp" =>
        /\ ret.value =
              IF /\ Positive(arg.dataset)
                 /\ ~Gt(Int64(arg.dataset), FutureCutoff)
                 /\ ~Gt(Int64(arg.dataset), arg.clock)
              THEN Int64(arg.dataset)
              ELSE ExtractTimestampFromFolder(arg.folder)
        /\ (arg.dataset = DsZero /\ arg.folder = FolderNoaa)
              => ret.value = W(1714566, 600)

\* ------------------------------------------------ the composite label alone
\* The dictionary {goes, goes-ir}; two keys of one length; an upper-case key;
\* no key; the dictionary of the configurations
KeyGoes == <<"g", "o", "e", "s">>
KeyGoesIr == <<"g", "o", "e", "s", "-", "i", "r">>
DictGoes == (KeyGoes :> "GOES Composite") @@ (KeyGoesIr :> "GOES Infrared")
Dicts ==
    {DictGoes,
     (<<"i", "r">> :> "IR") @@ (<<"0", "1">> :> "One"),
     (<<"G", "O", "E", "S">> :> "Upper") @@ (<<"i", "r">> :> "IR"),
     <<>>,
     Dict}

\* image_goes-ir_01.png, GOES_map.JPG, noise.png, goes.ir.png, gi.png
NameGoesIr ==
    <<"i", "m", "a", "g", "e", "_", "g", "o", "e", "s", "-", "i", "r", "_", "0", "1",
      ".", "p", "n", "g">>
ImageNames ==
    {NameGoesIr,
     <<"G", "O", "E", "S", "_", "m", "a", "p", ".", "J", "P", "G">>,
     <<"n", "o", "i", "s", "e", ".", "p", "n", "g">>,
     <<"g", "o", "e", "s", ".", "i", "r", ".", "p", "n", "g">>,
     FileName(FileGi)}

\* ImageDirConfig.Composite: none, blank, a label
Overrides == {"", " ", "RGB"}

LabelInit ==
    /\ SchedInit
    /\ cfgState = "ok"
    /\ DbIdle
    /\ \E n \in ImageNames, dc \in Dicts, o \in Overrides :
          arg = [fn |-> "composite", name |-> n, composites |-> dc, override |-> o]
    /\ ret = NoArg

\* Lines 450-505 for one file; compKeys is the list that the range over the
\* map and sort.Slice have left
LabelApply ==
    /\ arg.fn = "composite"
    /\ ret = NoArg
    /\ \E compKeys \in SortedKeys(arg.composites) :
          ret' = [fn |-> "composite",
                  value |-> Chosen(arg.name, arg.composites, arg.override, compKeys)]
    /\ UNCHANGED <<now, schedVars, dbVars, arg>>

LabelSpec == LabelInit /\ [][LabelApply]_vars

\* The keys of the dictionary that occur in the file name without its
\* extension, letter case apart
Occurs(k, name) ==
    \E i \in 0..(Len(TrimExt(name)) - Len(k)) :
        \A j \in 1..Len(k) : Lower(TrimExt(name)[i + j]) = Lower(k[j])

\* The label by the dictionary: of a longest key that occurs, "Other"
\* without one
IsDictLabel(l, name, composites) ==
    IF \A k \in DOMAIN composites : ~Occurs(k, name) THEN l = "Other"
    ELSE \E k \in DOMAIN composites :
            /\ Occurs(k, name)
            /\ \A o \in DOMAIN composites : Occurs(o, name) => Len(o) <= Len(k)
            /\ l = composites[k]

\* C15 as stated: the label is the rule's override when that is non-empty,
\* and otherwise the label by the dictionary.
C15_Original ==
    ret.fn = "composite" =>
        IF arg.override # "" THEN ret.value = arg.override
        ELSE IsDictLabel(ret.value, arg.name, arg.composites)

\* C15. Composite label resolution: the label is the rule's override when
\* that is not blank; otherwise the label of a longest dictionary key that
\* occurs, letter case apart, in the file name without extension (any one of
\* them when several have that length), and "Other" when no key occurs.
\* With keys goes and goes-ir, image_goes-ir_01.png gets the label of goes-ir.
C15_Label ==
    ret.fn = "composite" =>
        /\ IF arg.override \notin {"", " "} THEN ret.value = arg.override
           ELSE IsDictLabel(ret.value, arg.name, arg.composites)
        /\ (arg.name = NameGoesIr /\ arg.composites = DictGoes
            /\ arg.override \in {"", " "}) => ret.value = "GOES Infrared"

C15_Witness ==
    /\ ret.fn = "composite"
    /\ arg.name = NameGoesIr
    /\ arg.composites = DictGoes
    /\ arg.override = ""
    /\ ret.value = "GOES Infrared"

\* A step of a metadata-remap run: of the steps that leave the disk and
\* the clock alone, the only one from idle to idle
MetaStep == run.pc = "idle" /\ run'.pc = "idle" /\ fs' = fs /\ now' = now

\* The columns of an image row that the remap is not to touch
Frame(r) ==
    [path |-> r.path, passId |-> r.passId, mapOverlay |-> r.mapOverlay,
     vPixels |-> r.vPixels, needsThumb |-> r.needsThumb]

\* C16. Metadata-only mode: a metadata-remap run leaves the pass rows, the
\* number of image rows and each image's path, passId, mapOverlay, vPixels
\* and needsThumb as they were; it may change composite, sensor, corrected
\* and filled only.
C16_MetadataFrame ==
    [][MetaStep =>
          /\ passes' = passes
          /\ seq' = seq
          /\ BagCardinality(images') = BagCardinality(images)
          /\ BagOfAll(Frame, images') = BagOfAll(Frame, images)]_vars

\* A remap has rewritten a row: no scan stores an empty composite
C16_Witness ==
    /\ run.pc = "idle"
    /\ run.result = "nil"
    /\ \E r \in BagToSet(images) : r.composite = "" /\ r.sensor = "s1"

\* The candidate that a step of an incremental run has inserted or updated
Reconciled ==
    IF run.pc = "loop" /\ run.mode = 1 /\ run'.pc = "loop" /\ run'.added # run.added
    THEN run.cands \ run'.cands
    ELSE {}

\* C17. Pass identity: no two pass rows have the same name or the same
\* identifier; an incremental run that reconciles a folder whose pass exists
\* rewrites that row in place, under its identifier, and inserts no row;
\* a folder without a pass gets one new row with a fresh identifier; every
\* other row stays as it is.
C17_PassIdentity ==
    [][/\ \A p, q \in passes' : (p.name = q.name \/ p.id = q.id) => p = q
       /\ \A c \in Reconciled :
             LET old == {p \in passes : p.name = c.relFolder}
                 row(id) == PassRow(id, c.relFolder, c.typeName,
                                NeedsRescanFromMTime(LatestModTimeOfTree(c.relFolder), now))
             IN  IF old # {}
                 THEN /\ \E p \in old : passes' = (passes \ old) \cup {row(p.id)}
                      /\ seq' = seq
                 ELSE /\ passes' = passes \cup {row(seq')}
                      /\ seq' > seq
                      /\ \A p \in passes : p.id < seq']_vars

\* An incremental run has reconciled a pass that existed: flag 1 became 0
\* under the same identifier
C17_Witness ==
    /\ run.pc = "loop"
    /\ run.mode = 1
    /\ run.added > 0
    /\ \E e \in run.existing, p \in passes :
          /\ p.id = e.id
          /\ p.name = e.name
          /\ e.needsRescan = 1
          /\ p.needsRescan = 0
    /\ Cardinality(passes) = 2

\* C18. Persistence errors abort the run: once a store operation has failed
\* for a pass, the run processes no further pass and the entry point
\* returns an error.
C18_ErrorsAbort ==
    [][(run.pc = "loop" /\ run.failed) =>
          /\ run'.cands = run.cands \/ run'.pc = "idle"
          /\ run'.pc = "idle" => run'.result = "error"]_vars

\* ------------------------------------------------ configuration errors
\* The scheduler when the prefs store may hold no pass configuration
\* ("noPrefs": loadPassConfigFromPrefs fails, com/db-update.go lines
\* 248-251).  h.Cfg and h.Pass are set then, Preflight lets the request
\* through, and RunDBUpdate falls back to the PassConfig it was given
\* (lines 908-916).
CfgStates == {"ok", "nilCfg", "nilPass", "noPrefs"}

CfgInit ==
    /\ SchedInit
    /\ cfgState \in CfgStates
    /\ DbIdle
    /\ FunIdle

CfgSpec == CfgInit /\ [][Next]_vars

\* C19. Configuration errors prevent a run from starting: with a nil
\* configuration, or when no pass-type rules can be loaded, no run is ever
\* started: the in-flight flag is never set, no run identifier is assigned
\* and the last-run time stays unset.
C19_NoRunOnConfigError ==
    cfgState # "ok" => (~inFlight /\ runID = 0 /\ IsZero(lastRun))

\* The candidates that a step of an incremental run takes off the list
Turned ==
    IF run.pc = "loop" /\ run.mode = 1 /\ run'.pc = "loop"
    THEN run.cands \ run'.cands
    ELSE {}

\* C20. Incremental skip: a candidate whose existing row has needsRescan = 0
\* is skipped: the step changes no pass row, no image row and no counter but
\* skipped, whatever the folder holds.  Any other candidate is not skipped:
\* unless the store fails, it is counted as added, its pass row carries the
\* existing identifier when there was one, every image path of the scan is
\* stored for that pass, and no row is lost.
C20_IncrementalSkip ==
    [][\A c \in Turned :
          LET ex == {e \in run.existing : e.name = c.relFolder}
              scan == ScanBag(c.relFolder, PassTypeOf(c.typeName))
          IN  IF \E e \in ex : e.needsRescan = 0
              THEN /\ passes' = passes
                   /\ images' = images
                   /\ seq' = seq
                   /\ run'.skipped = run.skipped + 1
                   /\ run'.added = run.added
                   /\ run'.failed = run.failed
              ELSE /\ run'.skipped = run.skipped
                   /\ images \sqsubseteq images'
                   /\ run'.added # run.added =>
                         /\ run'.added = run.added + 1
                         /\ \E p \in passes' :
                               /\ p.name = c.relFolder
                               /\ \A e \in ex : p.id = e.id
                               /\ \A i \in DOMAIN scan :
                                     \E r \in BagToSet(images') :
                                         r.passId = p.id /\ r.path = i.path]_vars

\* A run has skipped a pass whose folder holds a file that is not in the
\* catalog
C20_Witness ==
    /\ run.pc = "loop"
    /\ run.mode = 1
    /\ run.skipped > 0
    /\ \E e \in run.existing :
          /\ e.needsRescan = 0
          /\ e.name \in DOMAIN fs
          /\ \A c \in run.cands : c.relFolder # e.name
          /\ fs[e.name].files # {}
          /\ \A r \in BagToSet(images) : r.passId # e.id
\* ======================================================================
\* Claims about the life of rows, the classification and the rebuild
\* ======================================================================

\* The step with which a repopulate run begins: the table wipe
WipeStep == run.pc = "idle" /\ run'.pc = "loop" /\ run'.mode = 0

\* The identity of an image row: its pass and its path
RowKey(r) == [passId |-> r.passId, path |-> r.path]

\* C21. Row lifecycle: a step that is not the table wipe of a repopulate run
\* deletes no pass row (every stored identifier stays, under its name) and no
\* image row (every stored (pass, path) stays, as often as it was stored),
\* also when the folder or the file is gone from the disk; a step of an
\* incremental run leaves every stored image row as it is, in every column.
C21_RowLifecycle ==
    [][/\ ~WipeStep =>
             /\ \A p \in passes : \E q \in passes' : q.id = p.id /\ q.name = p.name
             /\ BagOfAll(RowKey, images) \sqsubseteq BagOfAll(RowKey, images')
       /\ (~WipeStep /\ ~MetaStep) => images \sqsubseteq images'
       /\ (passes' = {} /\ passes # {}) => WipeStep]_vars

\* The folder of a stored pass with stored images is gone from the disk, and
\* an incremental run has gone by it: the rows are still there
C21_Witness ==
    /\ run.pc = "loop"
    /\ run.mode = 1
    /\ run.cands = {}
    /\ \E p \in passes :
          /\ p.name \notin DOMAIN fs
          /\ \E r \in BagToSet(images) : r.passId = p.id
\* ======================================================================
\* Further claims about the scheduler
\* ======================================================================

\* The fields of the handler that a run writes
RunFields == <<step, lastErr, inFlight, finishedAt, lastRun>>

\* The jobs that take a step
Stepping == {i \in RunIds : jpc[i] # "none" /\ jpc'[i] # jpc[i]}

\* The step value that names position pc of a job
StepAt(pc) ==
    IF pc = "spawned" THEN "queued"
    ELSE IF pc = "db" THEN "db-update"
    ELSE "thumbgen"

StartStep == run.pc = "idle" /\ run'.pc = "loop"

\* The order in which loadPassConfigFromPrefs inserted the folder rules:
\* one order, the same for every run
InsertionOrder == CHOOSE o \in Perms(DOMAIN PassCfg.folderIncludes) : TRUE

\* C23. Folder classification is first-match-wins and deduplicated: the
\* candidates of a run hold every folder at most once, and each folder has
\* the pass type of the first rule, in insertion order, that matches it; the
\* same rules and directories give the same candidates in every run.
C23_FirstMatchWins ==
    [][StartStep =>
          /\ \A c, d \in run'.cands : c.relFolder = d.relFolder => c = d
          /\ run'.cands = Candidates(InsertionOrder)]_vars
\* The candidate that a step of a run has passed to processPassOptimized
Worked ==
    IF run.pc = "loop" /\ run'.pc = "loop"
       /\ (run'.added # run.added \/ (run'.failed /\ run'.skipped = run.skipped))
    THEN run.cands \ run'.cands
    ELSE {}

\* The rows of bag B with pass pid and path
RowsAt(B, pid, path) ==
    BagCardinality([r \in {x \in BagToSet(B) : x.passId = pid /\ x.path = path}
                        |-> B[r]])

\* C24. Batch insert discipline: when a pass has been processed, then either
\* every image of the scan whose path was not stored for the pass is stored,
\* as often as the scan holds it and with the columns of the scan, and
\* nothing else is added, or, the store having failed, table images is as
\* it was; when the scan or its remainder is empty, table images is as it
\* was, and a step that has written the pass row counts the pass as
\* processed.
C24_BatchInsert ==
    [][\A c \in Worked :
          /\ run'.added = run.added => images' = images
          /\ \A p \in passes' :
                p.name = c.relFolder =>
                  LET scan == ScanBag(c.relFolder, PassTypeOf(c.typeName))
                      rest == {i \in DOMAIN scan : RowsAt(images, p.id, i.path) = 0}
                  IN  /\ run'.added # run.added =>
                            /\ \A i \in rest :
                                  /\ images'[ImageRow(i, p.id)] = scan[i]
                                  /\ RowsAt(images', p.id, i.path) = scan[i]
                            /\ images \sqsubseteq images'
                            /\ BagCardinality(images') =
                                  BagCardinality(images)
                                  + BagCardinality([i \in rest |-> scan[i]])
                      /\ rest = {} =>
                            /\ images' = images
                            /\ passes' # passes => run'.added = run.added + 1]_vars

\* The store failed in the batch of a pass whose scan holds two images: the
\* pass row is written, the run goes on, and no image of the pass is stored
C24_Witness ==
    /\ run.pc = "loop"
    /\ run.failed
    /\ run.added = 0
    /\ \E p \in passes :
          /\ \A e \in run.existing : e.name # p.name
          /\ BagCardinality(ScanBag(p.name, PassTypeOf(p.satellite))) = 2
          /\ \A r \in BagToSet(images) : r.passId # p.id
\* The step in which a repopulate run returns nil
RebuiltStep == run.pc = "loop" /\ run.mode = 0 /\ run'.pc = "idle" /\ run'.result = "nil"

\* The folders on disk that some folder rule reaches
Classified == {d \in DOMAIN fs : \E p \in DOMAIN PassCfg.folderIncludes : d \in Matches(p)}

\* The image rows that a scan of the folder of pass row p gives
ScanRows(p) ==
    LET scan == ScanBag(p.name, PassTypeOf(p.satellite))
    IN  [r \in {ImageRow(i, p.id) : i \in DOMAIN scan} |->
            scan[CHOOSE i \in DOMAIN scan : ImageRow(i, p.id) = r]]

\* C25. Repopulate is a full rebuild: when a repopulate run has returned
\* without error, the catalog holds one pass row for each classified folder
\* on disk, with identifiers counted from 1 and no other pass row, and
\* each pass has exactly the image rows that the scan of its folder gives,
\* with no other image row; no candidate was skipped.
C25_FullRebuild ==
    [][RebuiltStep =>
          /\ run.skipped = 0
          /\ {p.name : p \in passes} = Classified
          /\ Cardinality(passes) = Cardinality(Classified)
          /\ {p.id : p \in passes} = 1..Cardinality(Classified)
          /\ \A p \in passes :
                \A r \in BagToSet(ScanRows(p)) : images[r] = ScanRows(p)[r]
          /\ \A r \in BagToSet(images) :
                \E p \in passes : r.passId = p.id /\ r \in BagToSet(ScanRows(p))]_vars
FailStep == inFlight /\ ~inFlight' /\ lastErr' # ""

Rejection == resp'.ep = "update" /\ resp'.code # 202

\* C28. Rejected requests have no effect: a Start() that is answered with
\* anything but the acceptance (wrong method, failed preflight, run in
\* progress, cooldown active) leaves the in-flight flag, the run identifier,
\* startedAt, finishedAt, step, the last error and the last-run time as they
\* were and starts no job; a request turned away before the gate is answered
\* 405 or 500 and does not wait for the lock; and a gate that runs while a run
\* is in flight answers "update already in progress", with the step and start
\* of that run and no cooldown value, also when the cooldown is active for
\* the request.
C28_RejectNoEffect ==
    [][ /\ Rejection =>
              /\ resp'.code \in {405, 429, 500}
              /\ UNCHANGED <<updVars, jobVars>>
              /\ ActiveJobs' = ActiveJobs
        /\ (Rejection /\ ~GateStep) =>
              /\ resp'.code \in {405, 500}
              /\ gateq' = gateq
        /\ (Rejection /\ GateStep) =>
              /\ resp'.code = 429
              /\ resp'.message = (IF inFlight THEN "update already in progress"
                                  ELSE "cooldown active")
        /\ (GateStep /\ inFlight
            /\ CooldownActive(GateNow, lastRun, Cool(CooldownSec))) =>
              /\ IsUpd(resp', "update already in progress")
              /\ resp'.inProgress
              /\ resp'.cooldownSec = 0
              /\ resp'.step = step /\ resp'.startedAt = startedAt
      ]_vars

\* A Start() was turned away as "in progress" during the second run, which
\* follows a successful first run
C28_Witness ==
    /\ IsUpd(resp, "update already in progress")
    /\ resp.code = 429
    /\ inFlight
    /\ runID = 2
    /\ ~IsZero(lastRun)
    /\ jpc[2] = "db"
    /\ resp.step = "db-update"
\* The repopulate calls that return in this step after they passed the gate
\* and reserved the slot
Returning == {r \in RplCallers : rpc[r] \in {"db", "thumb"} /\ rpc'[r] = "idle"}

AsScanned(r, typeName) ==
    LET cfgs == DirConfigs(PassTypeOf(typeName), r.path[Len(r.path) - 1])
        name == r.path[Len(r.path)]
    IN  \/ cfgs = {}
        \/ \E rule \in cfgs :
              /\ r.composite \in ChosenLabels(name, PassCfg.composites, rule.composite)
              /\ r.sensor = rule.sensor
              /\ r.corrected = BoolToInt(rule.isCorrected \/ Contains(name, CorrectedMark))
              /\ r.filled = BoolToInt(rule.isFilled)

\* C30. Metadata remap agrees with a fresh scan: after a metadata-remap run,
\* every image row of a stored pass whose directory has a rule, under a pass
\* type that the folder rules give the pass, has the composite, sensor,
\* corrected and filled values that a scan assigns to the same file under
\* the same configuration: the label of the dictionary when the rule has no
\* composite override, and corrected = 1 when the name holds _corrected.
C30_RemapAgrees ==
    [][MetaStep =>
          \A r \in BagToSet(images') :
              \A p \in passes :
                  p.id = r.passId =>
                      \E ty \in MetaTypes(p.name) : ty = "" \/ AsScanned(r, ty)]_vars

====
